---- MODULE Spec2Model ----
(***************************************************************************)
(* HDLC-style byte stuffing: encode, decode and decode_slice of            *)
(* src/src/lib.rs, applied to bounded payloads, wire inputs and            *)
(* SpecialChars configurations.                                            *)
(***************************************************************************)
EXTENDS Integers, Sequences, FiniteSets, TLC

(* -------------------------- constants ---------------------------------- *)
\* The special characters of SpecialChars::default().
FEND == 126
FESC == 125
TFEND == 94
TFESC == 93

(* ---------------------------- bounds ----------------------------------- *)
\* Bytes other than the four above are drawn from 0..MaxPlain.
MaxPlain == 0
\* Longest payload handed to encode.
MaxLen == 3
\* Longest wire input handed directly to decode / decode_slice.
MaxInput == 4

SpecialBytes == {FEND, FESC, TFEND, TFESC}

\* The u8 values the calls are made with.
Byte == SpecialBytes \cup (0..MaxPlain)

RECURSIVE SeqsUpTo(_, _)
SeqsUpTo(S, n) ==
    IF n = 0 THEN {<<>>}
    ELSE LET shorter == SeqsUpTo(S, n - 1)
         IN shorter \cup {Append(q, b) : q \in {x \in shorter : Len(x) = n - 1}, b \in S}

Payloads == SeqsUpTo(Byte, MaxLen)
Inputs == SeqsUpTo(Byte, MaxInput)

(* ------------------------ SpecialChars --------------------------------- *)
\* SpecialChars::new performs no validation: every assignment of the four
\* fields is a configuration, with or without duplicates.  The default
\* configuration is one of them.
SpecialChars == [fend : SpecialBytes, fesc : SpecialBytes,
                 tfend : SpecialBytes, tfesc : SpecialBytes]

(* --------------------------- results ----------------------------------- *)
Ok(bytes) == [kind |-> "Ok", bytes |-> bytes, err |-> "-"]
Err(e) == [kind |-> "Err", bytes |-> <<>>, err |-> e]
\* decode_slice can abort on `index - swap - 1` (usize underflow in a build
\* with overflow checks, out-of-range index after wrap-around otherwise).
Panic == [kind |-> "Panic", bytes |-> <<>>, err |-> "-"]
NoResult == [kind |-> "None", bytes |-> <<>>, err |-> "-"]

(* --------------------- duplicate check (all three) --------------------- *)
\* Variant: the last insert (tfesc) is not tested.
has_duplicate_three(s) ==
    LET set1 == {s.fend}
        set2 == set1 \cup {s.fesc}
    IN \/ s.fesc \in set1
       \/ s.tfend \in set2

\* HashSet::insert returns false when the value is already present; the
\* inserts are made in the order fend, fesc, tfend, tfesc.
has_duplicate(s) ==
    LET set1 == {s.fend}
        set2 == set1 \cup {s.fesc}
        set3 == set2 \cup {s.tfend}
    IN \/ s.fesc \in set1
       \/ s.tfend \in set2
       \/ s.tfesc \in set3

(* ------------------------------ encode --------------------------------- *)
\* Variant: the two trade characters exchanged.
encode_value_swapped(value, s) ==
    IF value = s.fesc THEN <<s.fesc, s.tfend>>
    ELSE IF value = s.fend THEN <<s.fesc, s.tfesc>>
    ELSE <<value>>

\* Variant: a fend in the payload is copied unchanged.
encode_value_fend_unescaped(value, s) ==
    IF value = s.fesc THEN <<s.fesc, s.tfesc>>
    ELSE <<value>>

\* One arm of the match in encode's loop: the bytes pushed for `value`.
encode_value(value, s) ==
    IF value = s.fesc THEN <<s.fesc, s.tfesc>>
    ELSE IF value = s.fend THEN <<s.fesc, s.tfend>>
    ELSE <<value>>

RECURSIVE encode_loop(_, _, _)
encode_loop(data, output, s) ==
    IF data = <<>> THEN output
    ELSE encode_loop(Tail(data), output \o encode_value(Head(data), s), s)

\* Variant: the final FEND is not pushed.
encode_no_final_fend(data, s) ==
    IF has_duplicate(s) THEN Err("DuplicateSpecialChar")
    ELSE Ok(encode_loop(data, <<s.fend>>, s))

\* Variant: a payload holding a fend is refused.
encode_refuses_fend(data, s) ==
    IF has_duplicate(s) THEN Err("DuplicateSpecialChar")
    ELSE IF \E k \in 1..Len(data) : data[k] = s.fend THEN Err("FendCharInData")
    ELSE Ok(Append(encode_loop(data, <<s.fend>>, s), s.fend))

encode(data, s) ==
    IF has_duplicate(s) THEN Err("DuplicateSpecialChar")
    ELSE Ok(Append(encode_loop(data, <<s.fend>>, s), s.fend))

(* ------------------------------ decode --------------------------------- *)
\* Variant: a byte after fesc that is no trade character is kept as data.
decode_fesc_lenient(input, i, s) ==
    IF i + 1 <= Len(input) /\ input[i + 1] = s.tfend THEN Ok(<<s.fend>>)
    ELSE IF i + 1 <= Len(input) /\ input[i + 1] = s.tfesc THEN Ok(<<s.fesc>>)
    ELSE IF i + 1 <= Len(input) THEN Ok(<<input[i + 1]>>)
    ELSE Err("MissingTradeChar")

\* Variant: an input that ends on the fesc is reported as lacking its final fend.
decode_fesc_end_is_final(input, i, s) ==
    IF i + 1 > Len(input) THEN Err("MissingFinalFend")
    ELSE IF input[i + 1] = s.tfend THEN Ok(<<s.fend>>)
    ELSE IF input[i + 1] = s.tfesc THEN Ok(<<s.fesc>>)
    ELSE Err("MissingTradeChar")

\* Variant: a fend after the fesc is reported as a fend in the data.
decode_fesc_fend_first(input, i, s) ==
    IF i + 1 <= Len(input) /\ input[i + 1] = s.tfend THEN Ok(<<s.fend>>)
    ELSE IF i + 1 <= Len(input) /\ input[i + 1] = s.tfesc THEN Ok(<<s.fesc>>)
    ELSE IF i + 1 <= Len(input) /\ input[i + 1] = s.fend THEN Err("FendCharInData")
    ELSE Err("MissingTradeChar")

\* The FESC arm: `match input_iter.next()` on the byte after the fesc at
\* position i (None when the input ends there).
decode_fesc(input, i, s) ==
    IF i + 1 <= Len(input) /\ input[i + 1] = s.tfend THEN Ok(<<s.fend>>)
    ELSE IF i + 1 <= Len(input) /\ input[i + 1] = s.tfesc THEN Ok(<<s.fesc>>)
    ELSE Err("MissingTradeChar")

\* Variant: the bytes decoded so far are returned without a final fend.
decode_finish_partial(output, has_final_fend) ==
    Ok(output)

\* After the loop: the message is returned only if it had a final FEND.
decode_finish(output, has_final_fend) ==
    IF has_final_fend THEN Ok(output) ELSE Err("MissingFinalFend")

\* The `while let Some(value) = input_iter.next()` loop; i is the 1-based
\* position of the byte the iterator yields next.
RECURSIVE decode_loop(_, _, _, _, _)
decode_loop(input, i, output, has_final_fend, s) ==
    IF i > Len(input)
    THEN decode_finish(output, has_final_fend)
    ELSE LET value == input[i] IN
         IF value = s.fesc
         THEN LET traded == decode_fesc(input, i, s) IN
              IF traded.kind = "Ok"
              THEN decode_loop(input, i + 2, output \o traded.bytes, has_final_fend, s)
              ELSE traded
         ELSE IF value = s.fend
         THEN IF i + 1 > Len(input)
              THEN decode_loop(input, i + 1, output, TRUE, s)
              ELSE Err("FendCharInData")
         ELSE decode_loop(input, i + 1, Append(output, value), has_final_fend, s)

\* Variant: the opening FEND is not verified, the loop starts at the first byte.
decode_no_first_check(input, s) ==
    IF has_duplicate(s) THEN Err("DuplicateSpecialChar")
    ELSE decode_loop(input, 1, <<>>, FALSE, s)

\* Variant: the opening FEND is verified but not consumed.
decode_first_not_consumed(input, s) ==
    IF has_duplicate(s) THEN Err("DuplicateSpecialChar")
    ELSE IF Len(input) = 0 \/ input[1] # s.fend THEN Err("MissingFirstFend")
    ELSE decode_loop(input, 1, <<>>, FALSE, s)

decode(input, s) ==
    IF has_duplicate(s) THEN Err("DuplicateSpecialChar")
    ELSE IF Len(input) = 0 \/ input[1] # s.fend THEN Err("MissingFirstFend")
    ELSE decode_loop(input, 2, <<>>, FALSE, s)

(* --------------------------- decode_slice ------------------------------ *)
\* Outcome of decode_slice: the returned value and the caller's buffer as
\* the call leaves it.
SliceOutcome(result, input) == [result |-> result, input |-> input]

RECURSIVE slice_loop(_, _, _, _, _, _, _)

\* Variant: the write lands one place to the right (index - swap).
slice_write_off_by_one(output, input, index, sync, swap, byte, s) ==
    IF index - swap < 0 \/ index - swap >= Len(input)
    THEN SliceOutcome(Panic, input)
    ELSE slice_loop(output, [input EXCEPT ![index - swap + 1] = byte],
                    index + 1, sync, swap, 0, s)

\* `input[index - swap - 1] = byte` with usize arithmetic, then the next
\* iteration: a negative difference aborts the call.
slice_write(output, input, index, sync, swap, byte, s) ==
    IF index - swap - 1 < 0 \/ index - swap - 1 >= Len(input)
    THEN SliceOutcome(Panic, input)
    ELSE slice_loop(output, [input EXCEPT ![index - swap - 1 + 1] = byte],
                    index + 1, sync, swap, 0, s)

\* Variant: the closing FEND ends the message wherever it stands.
slice_fend_first_wins(output, input, index, swap) ==
    IF index - swap - 1 < 0
    THEN SliceOutcome(Panic, input)
    ELSE SliceOutcome(Ok(SubSeq(input, 1, index - swap - 1)), input)

\* A FEND met when already synced: the closing sync char.
slice_fend(output, input, index, swap) ==
    IF index + 1 < Len(output)
    THEN SliceOutcome(Err("FendCharInData"), input)
    ELSE IF index - swap - 1 < 0
    THEN SliceOutcome(Panic, input)
    ELSE SliceOutcome(Ok(SubSeq(input, 1, index - swap - 1)), input)

\* The `for (index, byte) in output.iter().enumerate()` loop; index is
\* 0-based as in the source, output is the copy of the original input.
slice_loop(output, input, index, sync, swap, last_was_fesc, s) ==
    IF index >= Len(output) THEN SliceOutcome(Err("MissingFinalFend"), input)
    ELSE LET byte == output[index + 1] IN
         IF last_was_fesc > 0
         THEN IF byte = s.tfesc
              THEN slice_write(output, input, index, sync, swap + 1, s.fesc, s)
              ELSE IF byte = s.tfend
              THEN slice_write(output, input, index, sync, swap + 1, s.fend, s)
              ELSE SliceOutcome(Err("MissingTradeChar"), input)
         ELSE IF byte = s.fend
         THEN IF sync > 0
              THEN slice_fend(output, input, index, swap)
              ELSE slice_loop(output, input, index + 1, 1, swap, 0, s)
         ELSE IF byte = s.fesc
         THEN slice_loop(output, input, index + 1, sync, swap, 1, s)
         ELSE IF sync > 0
         THEN slice_write(output, input, index, sync, swap, byte, s)
         ELSE slice_loop(output, input, index + 1, sync, swap, 0, s)

\* Variant: the duplicate check is made after the loop has run.
decode_slice_late_check(input, s) ==
    LET out == slice_loop(input, input, 0, 0, 0, 0, s) IN
    IF has_duplicate(s) THEN SliceOutcome(Err("DuplicateSpecialChar"), out.input)
    ELSE out

decode_slice(input, s) ==
    IF has_duplicate(s) THEN SliceOutcome(Err("DuplicateSpecialChar"), input)
    ELSE slice_loop(input, input, 0, 0, 0, 0, s)

(* --------------------------- state machine ----------------------------- *)
VARIABLES
    s_chars,   \* the SpecialChars value passed to every call
    op,        \* which call(s) have been made
    data,      \* the payload passed to encode
    frame,     \* the bytes passed to decode / decode_slice
    buffer,    \* decode_slice's `input` buffer after the call
    result     \* the value the last call returned

vars == <<s_chars, op, data, frame, buffer, result>>

Init ==
    /\ s_chars \in SpecialChars
    /\ op = "idle"
    /\ data = <<>>
    /\ frame = <<>>
    /\ buffer = <<>>
    /\ result = NoResult

Encode ==
    /\ op = "idle"
    /\ \E d \in Payloads :
          /\ data' = d
          /\ result' = encode(d, s_chars)
    /\ op' = "encode"
    /\ UNCHANGED <<s_chars, frame, buffer>>

Decode ==
    /\ op = "idle"
    /\ \E f \in Inputs :
          /\ frame' = f
          /\ result' = decode(f, s_chars)
    /\ op' = "decode"
    /\ UNCHANGED <<s_chars, data, buffer>>

DecodeSlice ==
    /\ op = "idle"
    /\ \E f \in Inputs :
          LET out == decode_slice(f, s_chars) IN
          /\ frame' = f
          /\ result' = out.result
          /\ buffer' = out.input
    /\ op' = "decode_slice"
    /\ UNCHANGED <<s_chars, data>>

\* decode applied to the frame encode returned.
DecodeEncoded ==
    /\ op = "encode"
    /\ result.kind = "Ok"
    /\ frame' = result.bytes
    /\ result' = decode(result.bytes, s_chars)
    /\ op' = "encode_decode"
    /\ UNCHANGED <<s_chars, data, buffer>>

\* decode_slice applied to a buffer holding the frame encode returned.
DecodeSliceEncoded ==
    /\ op = "encode"
    /\ result.kind = "Ok"
    /\ LET out == decode_slice(result.bytes, s_chars) IN
          /\ frame' = result.bytes
          /\ result' = out.result
          /\ buffer' = out.input
    /\ op' = "encode_decode_slice"
    /\ UNCHANGED <<s_chars, data>>

\* encode applied to the payload decode returned.
EncodeDecoded ==
    /\ op = "decode"
    /\ result.kind = "Ok"
    /\ data' = result.bytes
    /\ result' = encode(result.bytes, s_chars)
    /\ op' = "decode_encode"
    /\ UNCHANGED <<s_chars, frame, buffer>>

Next ==
    \/ Encode
    \/ Decode
    \/ DecodeSlice
    \/ DecodeEncoded
    \/ DecodeSliceEncoded
    \/ EncodeDecoded

Spec == Init /\ [][Next]_vars

TypeOK ==
    /\ s_chars \in SpecialChars
    /\ op \in {"idle", "encode", "decode", "decode_slice", "encode_decode", "encode_decode_slice",
               "decode_encode"}
    /\ result.kind \in {"None", "Ok", "Err", "Panic"}
(* ------------------- reference notions used by the properties ---------- *)
\* The four special characters are pairwise distinct.
Distinct(c) == Cardinality({c.fend, c.fesc, c.tfend, c.tfesc}) = 4

\* The wire image of one payload byte.
Image(b, c) ==
    CASE b = c.fend -> <<c.fesc, c.tfend>>
      [] b = c.fesc -> <<c.fesc, c.tfesc>>
      [] OTHER -> <<b>>

\* Number of wire bytes taken by the images of the first k bytes of p.
ImageEnd(p, k, c) ==
    k + Cardinality({j \in 1..k : p[j] = c.fend \/ p[j] = c.fesc})

\* A frame body read as a sequence of items: a byte that is neither fend nor
\* fesc stands for itself, (fesc, tfend) for fend, (fesc, tfesc) for fesc.
\* wf is FALSE when the body is no such sequence.
RECURSIVE Items(_, _)
Items(body, c) ==
    IF body = <<>> THEN [wf |-> TRUE, payload |-> <<>>]
    ELSE IF Head(body) = c.fend THEN [wf |-> FALSE, payload |-> <<>>]
    ELSE IF Head(body) = c.fesc
    THEN IF Len(body) >= 2 /\ body[2] \in {c.tfend, c.tfesc}
         THEN LET rest == Items(SubSeq(body, 3, Len(body)), c) IN
              [wf |-> rest.wf,
               payload |-> <<IF body[2] = c.tfend THEN c.fend ELSE c.fesc>> \o rest.payload]
         ELSE [wf |-> FALSE, payload |-> <<>>]
    ELSE LET rest == Items(Tail(body), c) IN
         [wf |-> rest.wf, payload |-> <<Head(body)>> \o rest.payload]

\* The bytes strictly between the first and the last byte of f.
Body(f) == SubSeq(f, 2, Len(f) - 1)

StartsWithFend == Len(frame) >= 1 /\ frame[1] = s_chars.fend

(* ------------------------------ C1 ------------------------------------- *)
\* C1: decoding the frame that encode produced for a payload, under the same
\* duplicate-free configuration, returns Ok with exactly that payload.
C1_RoundTripDecode ==
    op = "encode_decode" => result = Ok(data)

\* A payload holding fend, fesc and tfend survived the round trip.
C1_Witness ==
    /\ op = "encode_decode"
    /\ data = <<s_chars.fend, s_chars.fesc, s_chars.tfend>>
    /\ Len(frame) = 7
    /\ result = Ok(data)

(* ------------------------------ C2 ------------------------------------- *)
\* C2: decode_slice on a buffer holding encode's frame returns Ok with a view
\* that is the prefix of that buffer of the payload's length, equal to the
\* payload.
C2_RoundTripDecodeSlice ==
    op = "encode_decode_slice" =>
        /\ result.kind = "Ok"
        /\ result.bytes = SubSeq(buffer, 1, Len(data))
        /\ result.bytes = data

\* A payload with two escaped bytes was compacted in place.
C2_Witness ==
    /\ op = "encode_decode_slice"
    /\ data = <<s_chars.fesc, s_chars.tfesc, s_chars.fend>>
    /\ Len(buffer) = 7
    /\ SubSeq(buffer, 1, 3) = data
    /\ result = Ok(data)

(* ------------------------------ C3 ------------------------------------- *)
\* C3: whenever decode_slice returns Ok(view) under a duplicate-free
\* configuration, decode of the same input returns Ok with the same bytes.
C3_SliceAcceptsOnlyWhatDecodeAccepts ==
    (op = "decode_slice" /\ Distinct(s_chars) /\ result.kind = "Ok")
        => decode(frame, s_chars) = Ok(result.bytes)

(* ------------------------------ C4 ------------------------------------- *)
\* C4: for an input whose first byte is fend, under a duplicate-free
\* configuration, decode_slice returns what decode returns (same payload or
\* same error kind).
C4_SameOutcomeAfterOpeningFend ==
    (op = "decode_slice" /\ Distinct(s_chars) /\ StartsWithFend)
        => result = decode(frame, s_chars)

(* ------------------------------ C5 ------------------------------------- *)
\* C5: for an input that is empty or does not start with fend, under a
\* duplicate-free configuration, decode_slice returns Err(MissingFirstFend).
C5_SliceMissingFirstFend ==
    (op = "decode_slice" /\ Distinct(s_chars) /\ ~StartsWithFend)
        => result = Err("MissingFirstFend")

(* ------------------------------ C6 ------------------------------------- *)
\* C6: under a duplicate-free configuration encode returns Ok(fend ++ E ++
\* fend), E being the images of the payload bytes laid end to end in order.
C6_EncodeShape ==
    (op = "encode" /\ Distinct(s_chars)) =>
        /\ result.kind = "Ok"
        /\ LET w == result.bytes
               n == Len(data)
           IN /\ Len(w) = ImageEnd(data, n, s_chars) + 2
              /\ w[1] = s_chars.fend
              /\ w[Len(w)] = s_chars.fend
              /\ \A k \in 1..n :
                    SubSeq(w, ImageEnd(data, k - 1, s_chars) + 2,
                              ImageEnd(data, k, s_chars) + 1)
                        = Image(data[k], s_chars)

\* fend, fesc and tfesc encoded: two pairs and one byte copied unchanged.
C6_Witness ==
    /\ op = "encode"
    /\ Distinct(s_chars)
    /\ data = <<s_chars.fend, s_chars.tfesc, s_chars.fesc>>
    /\ result = Ok(<<s_chars.fend, s_chars.fesc, s_chars.tfend, s_chars.tfesc,
                     s_chars.fesc, s_chars.tfesc, s_chars.fend>>)

(* ------------------------------ C7 ------------------------------------- *)
\* C7: when two of the four special characters are equal, encode, decode and
\* decode_slice each return Err(DuplicateSpecialChar), whatever the input.
C7_DuplicateFirst ==
    (~Distinct(s_chars) /\ op \in {"encode", "decode", "decode_slice"})
        => result = Err("DuplicateSpecialChar")

\* Only tfesc repeats an earlier character, and the input lacks its opening
\* fend: the duplicate is reported, not MissingFirstFend.
C7_Witness ==
    /\ op = "decode"
    /\ Cardinality({s_chars.fend, s_chars.fesc, s_chars.tfend}) = 3
    /\ s_chars.tfesc = s_chars.tfend
    /\ Len(frame) = 2
    /\ frame[1] # s_chars.fend
    /\ result = Err("DuplicateSpecialChar")

(* ------------------------------ C8 ------------------------------------- *)
\* C8: under a duplicate-free configuration decode returns Ok exactly for the
\* inputs of at least two bytes that open and close with fend and whose body
\* is a sequence of items, and the payload is then the items' meaning.
C8_DecodeAcceptsExactlyFrames ==
    (op = "decode" /\ Distinct(s_chars)) =>
        LET framed == /\ Len(frame) >= 2
                      /\ frame[1] = s_chars.fend
                      /\ frame[Len(frame)] = s_chars.fend
            items == Items(Body(frame), s_chars)
        IN /\ result.kind = "Ok" <=> (framed /\ items.wf)
           /\ (framed /\ items.wf) => result = Ok(items.payload)
           /\ result.kind \in {"Ok", "Err"}

\* A frame of the greatest length whose body opens with a pair was accepted.
C8_Witness ==
    /\ op = "decode"
    /\ Distinct(s_chars)
    /\ Len(frame) = MaxInput
    /\ Len(frame) >= 4
    /\ frame[2] = s_chars.fesc
    /\ frame[3] = s_chars.tfesc
    /\ result.kind = "Ok"
    /\ Len(result.bytes) = Len(frame) - 3
    /\ result.bytes[1] = s_chars.fesc

(* ------------------------------ C9 ------------------------------------- *)
\* C9: under a duplicate-free configuration decode returns
\* Err(MissingFirstFend) for the empty input and for every input whose first
\* byte is not fend, whatever follows.
C9_DecodeMissingFirstFend ==
    (op = "decode" /\ Distinct(s_chars) /\ ~StartsWithFend)
        => result = Err("MissingFirstFend")

\* The first byte is not fend and the rest holds a stray fend and a bad escape.
C9_Witness ==
    /\ op = "decode"
    /\ Distinct(s_chars)
    /\ Len(frame) = 4
    /\ frame[1] = s_chars.tfend
    /\ frame[2] = s_chars.fend
    /\ frame[3] = s_chars.fesc
    /\ frame[4] = s_chars.fend
    /\ result = Err("MissingFirstFend")

(* ------------------------------ C10 ------------------------------------ *)
\* Position i holds a fend that the scan reaches outside an escape pair, with
\* well-formed items before it, and that is not the last byte.
StrayFendAt(i) ==
    /\ 1 < i /\ i < Len(frame)
    /\ frame[i] = s_chars.fend
    /\ Items(SubSeq(frame, 2, i - 1), s_chars).wf

\* C10: under a duplicate-free configuration, an input that starts with fend
\* and holds a stray fend before its end is rejected with FendCharInData by
\* decode and by decode_slice.
C10_StrayFendRejected ==
    (/\ op \in {"decode", "decode_slice"}
     /\ Distinct(s_chars)
     /\ StartsWithFend
     /\ \E i \in 1..Len(frame) : StrayFendAt(i))
        => result = Err("FendCharInData")

\* Two empty frames in one buffer: decode_slice rejects them instead of
\* returning the first frame.
C10_Witness ==
    /\ op = "decode_slice"
    /\ Distinct(s_chars)
    /\ frame = <<s_chars.fend, s_chars.fend, s_chars.fend, s_chars.fend>>
    /\ result = Err("FendCharInData")

(* ------------------------------ C11 ------------------------------------ *)
\* Position i holds an fesc that opens an escape, with well-formed items
\* before it, and the byte after it is neither tfend nor tfesc.
BadEscapeAt(i) ==
    /\ 1 < i /\ i < Len(frame)
    /\ frame[i] = s_chars.fesc
    /\ frame[i + 1] \notin {s_chars.tfend, s_chars.tfesc}
    /\ Items(SubSeq(frame, 2, i - 1), s_chars).wf

\* C11: under a duplicate-free configuration, an input that starts with fend
\* and holds an fesc followed by a byte that is no trade character (fend and
\* fesc included) is rejected with MissingTradeChar by decode and decode_slice.
C11_BadEscapeRejected ==
    (/\ op \in {"decode", "decode_slice"}
     /\ Distinct(s_chars)
     /\ StartsWithFend
     /\ \E i \in 1..Len(frame) : BadEscapeAt(i))
        => result = Err("MissingTradeChar")

\* The byte after the fesc is the fend that ends the input.
C11_Witness ==
    /\ op = "decode_slice"
    /\ Distinct(s_chars)
    /\ frame = <<s_chars.fend, s_chars.tfend, s_chars.fesc, s_chars.fend>>
    /\ result = Err("MissingTradeChar")

(* ------------------------------ C12 ------------------------------------ *)
\* C12: under a duplicate-free configuration, an input that starts with fend
\* and continues with well-formed items only (no further fend, no unpaired
\* fesc) is rejected with MissingFinalFend by decode and decode_slice.
C12_IncompleteFrameRejected ==
    (/\ op \in {"decode", "decode_slice"}
     /\ Distinct(s_chars)
     /\ StartsWithFend
     /\ Items(SubSeq(frame, 2, Len(frame)), s_chars).wf)
        => result = Err("MissingFinalFend")

\* A pair and a plain byte were decoded, then the input ran out.
C12_Witness ==
    /\ op = "decode"
    /\ Distinct(s_chars)
    /\ Len(frame) = 4
    /\ frame[1] = s_chars.fend
    /\ frame[2] = s_chars.fesc
    /\ frame[3] = s_chars.tfend
    /\ frame[4] \notin {s_chars.fend, s_chars.fesc}
    /\ result = Err("MissingFinalFend")

(* ------------------------------ C13 ------------------------------------ *)
\* C13: under a duplicate-free configuration, decode rejects with
\* MissingTradeChar an input that starts with fend, has well-formed items up
\* to its last byte, and whose last byte is an fesc with nothing after it.
C13_DecodeEscapeAtEnd ==
    (/\ op = "decode"
     /\ Distinct(s_chars)
     /\ StartsWithFend
     /\ Len(frame) >= 2
     /\ frame[Len(frame)] = s_chars.fesc
     /\ Items(SubSeq(frame, 2, Len(frame) - 1), s_chars).wf)
        => result = Err("MissingTradeChar")

\* A completed pair, then an fesc as the last byte.
C13_Witness ==
    /\ op = "decode"
    /\ Distinct(s_chars)
    /\ frame = <<s_chars.fend, s_chars.fesc, s_chars.tfesc, s_chars.fesc>>
    /\ result = Err("MissingTradeChar")

(* ------------------------------ C14 ------------------------------------ *)
\* C14: encode returns Ok for every payload under a duplicate-free
\* configuration, and any error it returns is DuplicateSpecialChar.
C14_EncodeOnlyFailsOnDuplicates ==
    op = "encode" =>
        /\ Distinct(s_chars) => result.kind = "Ok"
        /\ result.kind # "Ok" => result = Err("DuplicateSpecialChar")

\* A payload made of fend only was encoded.
C14_Witness ==
    /\ op = "encode"
    /\ Distinct(s_chars)
    /\ data = <<s_chars.fend, s_chars.fend, s_chars.fend>>
    /\ result.kind = "Ok"

(* ------------------------------ C15 ------------------------------------ *)
\* Number of bytes of p equal to fend or fesc.
Escapes(p, c) == Cardinality({k \in 1..Len(p) : p[k] \in {c.fend, c.fesc}})

\* C15: under a duplicate-free configuration the encoded length is
\* len(P) + 2 + (bytes of P equal to fend or fesc); it is at most
\* 2*len(P) + 2, with equality exactly when every byte of P is fend or fesc.
C15_EscapingBound ==
    (op = "encode" /\ Distinct(s_chars)) =>
        LET n == Len(result.bytes) IN
        /\ n = Len(data) + 2 + Escapes(data, s_chars)
        /\ n <= 2 * Len(data) + 2
        /\ n = 2 * Len(data) + 2
              <=> \A k \in 1..Len(data) : data[k] \in {s_chars.fend, s_chars.fesc}

\* Every byte escapes: the bound is met.
C15_Witness ==
    /\ op = "encode"
    /\ Distinct(s_chars)
    /\ data = <<s_chars.fesc, s_chars.fend, s_chars.fend>>
    /\ Len(result.bytes) = 8

(* ------------------------------ C16 ------------------------------------ *)
\* C16: under a duplicate-free configuration every write of decode_slice
\* targets index - swap - 1 >= 0 inside the buffer, so the call returns Ok or
\* Err and never aborts.
C16_SliceNeverPanics ==
    (op \in {"decode_slice", "encode_decode_slice"} /\ Distinct(s_chars))
        => result.kind \in {"Ok", "Err"}

(* ------------------------------ C17 ------------------------------------ *)
\* C17: when decode_slice returns Err(DuplicateSpecialChar) the caller's
\* buffer holds the bytes it held before the call.
C17_DuplicateLeavesBuffer ==
    (op = "decode_slice" /\ result = Err("DuplicateSpecialChar"))
        => buffer = frame

\* A buffer the loop would have compacted (fend, fesc, tfend, fend) is
\* returned untouched under a configuration with tfesc = tfend.
C17_Witness ==
    /\ op = "decode_slice"
    /\ s_chars.tfesc = s_chars.tfend
    /\ Cardinality({s_chars.fend, s_chars.fesc, s_chars.tfend}) = 3
    /\ frame = <<s_chars.fend, s_chars.fesc, s_chars.tfend, s_chars.fend>>
    /\ buffer = frame
    /\ result = Err("DuplicateSpecialChar")

(* ------------------------------ C19 ------------------------------------ *)
\* C19: under a duplicate-free configuration decode and decode_slice reject
\* the one-byte input [fend] with MissingFinalFend and accept [fend, fend]
\* with the empty payload.
C19_OpeningFendIsNotClosing ==
    (op \in {"decode", "decode_slice"} /\ Distinct(s_chars)) =>
        /\ frame = <<s_chars.fend>> => result = Err("MissingFinalFend")
        /\ frame = <<s_chars.fend, s_chars.fend>> => result = Ok(<<>>)

\* decode_slice met a lone fend.
C19_Witness ==
    /\ op = "decode_slice"
    /\ Distinct(s_chars)
    /\ frame = <<s_chars.fend>>
    /\ result = Err("MissingFinalFend")

(* ------------------------------ C20 ------------------------------------ *)
\* Positions after the first that hold a malformation: an fesc not followed
\* by a trade character, or a fend that is not the last byte.
Malformed ==
    {i \in 2..Len(frame) :
        \/ /\ frame[i] = s_chars.fesc
           /\ i = Len(frame) \/ frame[i + 1] \notin {s_chars.tfend, s_chars.tfesc}
        \/ /\ frame[i] = s_chars.fend
           /\ i < Len(frame)}

Leftmost(S) == CHOOSE i \in S : \A j \in S : i <= j

KindAt(i) == IF frame[i] = s_chars.fesc THEN "MissingTradeChar" ELSE "FendCharInData"

\* C20: under a duplicate-free configuration, for an input that starts with
\* fend, decode returns the error kind of the leftmost malformation, and
\* MissingFinalFend only when there is none.
C20_ErrorsInScanOrder ==
    (op = "decode" /\ Distinct(s_chars) /\ StartsWithFend) =>
        /\ Malformed # {} => result = Err(KindAt(Leftmost(Malformed)))
        /\ result = Err("MissingFinalFend") => Malformed = {}

\* A stray fend stands before a bad escape: FendCharInData is returned.
C20_Witness ==
    /\ op = "decode"
    /\ Distinct(s_chars)
    /\ Len(frame) = 4
    /\ frame[1] = s_chars.fend
    /\ frame[2] = s_chars.fend
    /\ frame[3] = s_chars.fesc
    /\ frame[4] \notin {s_chars.tfend, s_chars.tfesc, s_chars.fend}
    /\ Malformed = {2, 3}
    /\ result = Err("FendCharInData")

(* ------------------------------ C21 ------------------------------------ *)
\* C21: under a duplicate-free configuration, encoding the payload that
\* decode returned for an input gives back that input byte for byte.
C21_AcceptedFramesAreCanonical ==
    op = "decode_encode" => result = Ok(frame)

\* A frame holding one escape pair was decoded to [fend] and encoded back.
C21_Witness ==
    /\ op = "decode_encode"
    /\ frame = <<s_chars.fend, s_chars.fesc, s_chars.tfend, s_chars.fend>>
    /\ data = <<s_chars.fend>>
    /\ result = Ok(frame)

(* ------------------------------ C22 ------------------------------------ *)
\* C22: under a duplicate-free configuration the output of encode has at
\* least two bytes, holds fend at its first and last positions and nowhere
\* else, and every fesc in it is immediately followed by tfend or tfesc.
C22_EncodedFrameStructure ==
    (op = "encode" /\ Distinct(s_chars)) =>
        LET w == result.bytes IN
        /\ Len(w) >= 2
        /\ \A k \in 1..Len(w) : w[k] = s_chars.fend <=> k \in {1, Len(w)}
        /\ \A k \in 1..Len(w) :
              w[k] = s_chars.fesc =>
                  k < Len(w) /\ w[k + 1] \in {s_chars.tfend, s_chars.tfesc}

\* A payload with a fend, an fesc and a tfend: the frame's only fends are its
\* two ends.
C22_Witness ==
    /\ op = "encode"
    /\ Distinct(s_chars)
    /\ data = <<s_chars.fend, s_chars.fesc, s_chars.tfend>>
    /\ result.kind = "Ok"
    /\ Len(result.bytes) = 7
    /\ {k \in 1..7 : result.bytes[k] = s_chars.fend} = {1, 7}

====
